---- MODULE Spec2Model ----
(***************************************************************************)
(* A model of pypsa_optimize_gurobi.py: the repairs create_pypsa_network   *)
(* applies to a loaded PyPSA network (storage normalisation, artificial    *)
(* line capacities, offshore wind removal), the optimisation call and the  *)
(* reconstruction of the objective value that is written to a text file.   *)
(*                                                                         *)
(* Representation.  A pandas DataFrame is a record of columns, each column *)
(* a sequence over the row positions, with the column "index" holding the  *)
(* row labels; a column exists iff its name is in the DOMAIN of the        *)
(* record.  A time-series table (network.xxx_t.yyy) is a function from its *)
(* column labels to series, a series being a sequence over the snapshots.  *)
(* A Python string is the sequence of its characters.  Power is in MW as   *)
(* an integer; a cost coefficient is an integer number of hundredths       *)
(* (0.01 is 1, 0.1 is 10, 10 is 1000), so that total_objective is in       *)
(* hundredths as well; efficiency_store is in millionths; max_hours is in  *)
(* hours.                                                                  *)
(***************************************************************************)
EXTENDS Integers, Sequences, FiniteSets, TLC

VARIABLES
    pc,                  \* the statement of the script that runs next
    buses,               \* network.buses.index
    loads,               \* network.loads
    loads_t_p_set,       \* network.loads_t.p_set
    lines,               \* network.lines
    generators,          \* network.generators
    generators_t,        \* network.generators_t
    storage_units,       \* network.storage_units
    storage_units_t,     \* network.storage_units_t
    snapshot_weightings, \* network.snapshot_weightings.objective, over network.snapshots
    bus_max_demand,      \* the dict fix_artificial_lines_reasonable builds
    total_objective,     \* the script's accumulator
    snapshot,            \* the number of snapshots the objective loop has finished
    objective_file,      \* the text file: <<>> until written, then <<value>>
    at_entry,            \* the tables as they were when the latest repair step started
    calls,               \* how many times the repair function under study has been called
    stages               \* the stages of the script that have completed, in order

vars == <<pc, buses, loads, loads_t_p_set, lines, generators, generators_t,
          storage_units, storage_units_t, snapshot_weightings, bus_max_demand,
          total_objective, snapshot, objective_file, at_entry, calls, stages>>

----------------------------------------------------------------------------
(* Bounds of the model.                                                    *)

MaxLines == 2
MaxLoads == 2
MaxGenerators == 2
MaxStorageUnits == 2
MaxSnapshots == 2
MaxCalls == 2

----------------------------------------------------------------------------
(* Python and pandas primitives.                                           *)

Max2(a, b) == IF b > a THEN b ELSE a

RECURSIVE SeriesMax(_)
SeriesMax(s) ==
    IF Len(s) = 1 THEN s[1] ELSE Max2(s[1], SeriesMax(Tail(s)))

UpperToLower ==
    ("A" :> "a") @@ ("B" :> "b") @@ ("C" :> "c") @@ ("D" :> "d") @@ ("E" :> "e") @@
    ("F" :> "f") @@ ("G" :> "g") @@ ("H" :> "h") @@ ("I" :> "i") @@ ("J" :> "j") @@
    ("K" :> "k") @@ ("L" :> "l") @@ ("M" :> "m") @@ ("N" :> "n") @@ ("O" :> "o") @@
    ("P" :> "p") @@ ("Q" :> "q") @@ ("R" :> "r") @@ ("S" :> "s") @@ ("T" :> "t") @@
    ("U" :> "u") @@ ("V" :> "v") @@ ("W" :> "w") @@ ("X" :> "x") @@ ("Y" :> "y") @@
    ("Z" :> "z")

\* str.lower()
Lower(s) ==
    [i \in DOMAIN s |-> IF s[i] \in DOMAIN UpperToLower THEN UpperToLower[s[i]] ELSE s[i]]

\* keyword in s
Contains(s, keyword) ==
    \E i \in 1..(Len(s) - Len(keyword) + 1) :
        SubSeq(s, i, i + Len(keyword) - 1) = keyword

\* Series.str.contains(keyword, case=False) on one label
ContainsNoCase(s, keyword) ==
    \E i \in 1..(Len(s) - Len(keyword) + 1) :
        \A j \in 1..Len(keyword) :
            Lower(<<s[i + j - 1]>>) = Lower(<<keyword[j]>>)

\* the row positions of a DataFrame
Rows(df) == DOMAIN df.index

\* df.loc[label, column]
Loc(df, label, column) ==
    df[column][CHOOSE i \in Rows(df) : df.index[i] = label]

\* df.loc[label, column] = value
SetLoc(df, label, column, value) ==
    [df EXCEPT ![column] =
        [i \in Rows(df) |-> IF df.index[i] = label THEN value ELSE @[i]]]

\* df[column] = value, for a column the frame does not have yet
NewColumn(df, column, value) ==
    [c \in DOMAIN df \cup {column} |->
        IF c = column THEN [i \in Rows(df) |-> value] ELSE df[c]]

\* the rows of a DataFrame whose position satisfies keep, in order
RECURSIVE KeptPositions(_, _, _)
KeptPositions(n, i, keep) ==
    IF i > n THEN <<>>
    ELSE (IF keep[i] THEN <<i>> ELSE <<>>) \o KeptPositions(n, i + 1, keep)

\* df.drop(label)
DropRow(df, label) ==
    LET keep == [i \in Rows(df) |-> df.index[i] # label]
        pos == KeptPositions(Len(df.index), 1, keep)
    IN  [c \in DOMAIN df |-> [k \in DOMAIN pos |-> df[c][pos[k]]]]

\* table.drop(columns=label) where the table has that column
DropColumn(table, label) ==
    [c \in DOMAIN table \ {label} |-> table[c]]

----------------------------------------------------------------------------
(* fix_artificial_lines_reasonable.                                        *)

KwNew == <<"n","e","w">>
KwArrow == <<"<","-",">">>
KwArtificial == <<"a","r","t","i","f","i","c","i","a","l">>
Keywords == {KwNew, KwArrow, KwArtificial}

SafetyFactor == 3
MinCapacity == 1000

\* [line for line in network.lines.index if any(keyword in str(line).lower() ...)]
RECURSIVE KeywordLines(_, _)
KeywordLines(index, i) ==
    IF i > Len(index) THEN <<>>
    ELSE (IF \E keyword \in Keywords : Contains(Lower(index[i]), keyword)
          THEN <<index[i]>> ELSE <<>>) \o KeywordLines(index, i + 1)

\* network.lines[network.lines.s_nom == 0].index.tolist()
RECURSIVE ZeroCapacityLines(_, _)
ZeroCapacityLines(df, i) ==
    IF i > Len(df.index) THEN <<>>
    ELSE (IF df.s_nom[i] = 0 THEN <<df.index[i]>> ELSE <<>>)
         \o ZeroCapacityLines(df, i + 1)

\* a variant that takes the zero-capacity lines along with the keyword lines
ArtificialLinesWithZero(df) ==
    LET by_name == KeywordLines(df.index, 1)
    IN  by_name \o SelectSeq(ZeroCapacityLines(df, 1),
                             LAMBDA l : \A k \in DOMAIN by_name : by_name[k] # l)

\* the list artificial_lines the function ends up with
ArtificialLines(df) ==
    LET by_name == KeywordLines(df.index, 1)
    IN  IF by_name = <<>>
        THEN (LET zero_capacity_lines == ZeroCapacityLines(df, 1)
              IN  IF zero_capacity_lines # <<>> THEN zero_capacity_lines ELSE by_name)
        ELSE by_name

\* a variant that does not compare the load's bus with the bus
RECURSIVE BusDemandAnyBus(_, _, _, _, _)
BusDemandAnyBus(bus, ld, p_set, k, bus_demand) ==
    IF k > Len(ld.index) THEN bus_demand
    ELSE BusDemandAnyBus(bus, ld, p_set, k + 1,
            IF ld.index[k] \in DOMAIN p_set
            THEN Max2(bus_demand, SeriesMax(p_set[ld.index[k]]))
            ELSE bus_demand)

\* the inner loop over network.loads.iterrows() for one bus
RECURSIVE BusDemand(_, _, _, _, _)
BusDemand(bus, ld, p_set, k, bus_demand) ==
    IF k > Len(ld.index) THEN bus_demand
    ELSE BusDemand(bus, ld, p_set, k + 1,
            IF ld.bus[k] = bus /\ ld.index[k] \in DOMAIN p_set
            THEN Max2(bus_demand, SeriesMax(p_set[ld.index[k]]))
            ELSE bus_demand)

\* the dict bus_max_demand
BusMaxDemand(bs, ld, p_set) ==
    [bus \in bs |-> BusDemand(bus, ld, p_set, 1, 0)]

\* bus_max_demand.get(bus, 0)
Get(d, key, default) == IF key \in DOMAIN d THEN d[key] ELSE default

\* a variant without the 1000 MW minimum
RequiredCapacityNoMinimum(df, line_name, bmd) ==
    Max2(Get(bmd, Loc(df, line_name, "bus0"), 0), Get(bmd, Loc(df, line_name, "bus1"), 0))
        * SafetyFactor

\* required_capacity of one line
RequiredCapacity(df, line_name, bmd) ==
    LET bus0 == Loc(df, line_name, "bus0")
        bus1 == Loc(df, line_name, "bus1")
        bus0_demand == Get(bmd, bus0, 0)
        bus1_demand == Get(bmd, bus1, 0)
    IN  Max2(Max2(bus0_demand, bus1_demand) * SafetyFactor, MinCapacity)

\* a variant that adds the required capacity to s_nom instead of setting it
FixLineAdding(df, line_name, bmd) ==
    LET sized == SetLoc(df, line_name, "s_nom",
                        Loc(df, line_name, "s_nom") + RequiredCapacity(df, line_name, bmd))
        with_column == IF "s_nom_extendable" \notin DOMAIN sized
                       THEN NewColumn(sized, "s_nom_extendable", FALSE)
                       ELSE sized
    IN  SetLoc(with_column, line_name, "s_nom_extendable", FALSE)

\* a variant that resets the whole column s_nom_extendable on every pass
FixLineResettingFlags(df, line_name, bmd) ==
    NewColumn(SetLoc(df, line_name, "s_nom", RequiredCapacity(df, line_name, bmd)),
              "s_nom_extendable", FALSE)

\* one pass of the loop over artificial_lines
FixLine(df, line_name, bmd) ==
    LET sized == SetLoc(df, line_name, "s_nom", RequiredCapacity(df, line_name, bmd))
        with_column == IF "s_nom_extendable" \notin DOMAIN sized
                       THEN NewColumn(sized, "s_nom_extendable", FALSE)
                       ELSE sized
    IN  SetLoc(with_column, line_name, "s_nom_extendable", FALSE)

\* the loop over artificial_lines
RECURSIVE FixLines(_, _, _)
FixLines(df, todo, bmd) ==
    IF todo = <<>> THEN df
    ELSE FixLines(FixLine(df, Head(todo), bmd), Tail(todo), bmd)

\* network.lines after fix_artificial_lines_reasonable(network)
FixedLines(df, bs, ld, p_set) ==
    FixLines(df, ArtificialLines(df), BusMaxDemand(bs, ld, p_set))

----------------------------------------------------------------------------
(* remove_offshore_wind.                                                   *)

KwOffwind == <<"o","f","f","w","i","n","d">>

\* a variant that matches the case
IsOffwindCaseSensitive(label) == Contains(label, KwOffwind)

\* network.generators.index.str.contains('offwind', case=False, na=False)
IsOffwind(label) == ContainsNoCase(label, KwOffwind)

\* offwind_gens
RECURSIVE OffwindGens(_, _)
OffwindGens(index, i) ==
    IF i > Len(index) THEN <<>>
    ELSE (IF IsOffwind(index[i]) THEN <<index[i]>> ELSE <<>>)
         \o OffwindGens(index, i + 1)

\* network.remove("Generator", gen): the row of the generator table and the
\* generator's column in every time-series table that has one
Remove(net, gen) ==
    [df |-> DropRow(net.df, gen),
     pnl |-> [table \in DOMAIN net.pnl |-> DropColumn(net.pnl[table], gen)]]

\* the loop over offwind_gens
RECURSIVE RemoveAll(_, _)
RemoveAll(net, todo) ==
    IF todo = <<>> THEN net
    ELSE RemoveAll(Remove(net, Head(todo)), Tail(todo))

\* network.generators and network.generators_t after remove_offshore_wind(network)
WithoutOffshoreWind(df, pnl) ==
    RemoveAll([df |-> df, pnl |-> pnl], OffwindGens(df.index, 1))

----------------------------------------------------------------------------
(* The storage loop of create_pypsa_network.                               *)

KwPHS == <<"P","H","S">>
KwHydro == <<"h","y","d","r","o">>

StorageMarginalCost == 1
StorageMarginalCostStorage == 1
StorageSpillCost == 10
StorageEfficiencyStore == 866025
PhsMaxHours == 8
HydroMaxHours == 6

\* a variant that tests 'hydro' before 'PHS'
NormalizeUnitHydroFirst(df, storage_name) ==
    LET a == SetLoc(df, storage_name, "cyclic_state_of_charge", FALSE)
        b == SetLoc(a, storage_name, "marginal_cost", StorageMarginalCost)
        c == SetLoc(b, storage_name, "marginal_cost_storage", StorageMarginalCostStorage)
        d == SetLoc(c, storage_name, "spill_cost", StorageSpillCost)
        e == SetLoc(d, storage_name, "efficiency_store", StorageEfficiencyStore)
    IN  IF Contains(storage_name, KwHydro)
        THEN SetLoc(e, storage_name, "max_hours", HydroMaxHours)
        ELSE IF Contains(storage_name, KwPHS)
             THEN SetLoc(e, storage_name, "max_hours", PhsMaxHours)
             ELSE e

\* one pass of the loop over network.storage_units.index
NormalizeUnit(df, storage_name) ==
    LET a == SetLoc(df, storage_name, "cyclic_state_of_charge", FALSE)
        b == SetLoc(a, storage_name, "marginal_cost", StorageMarginalCost)
        c == SetLoc(b, storage_name, "marginal_cost_storage", StorageMarginalCostStorage)
        d == SetLoc(c, storage_name, "spill_cost", StorageSpillCost)
        e == SetLoc(d, storage_name, "efficiency_store", StorageEfficiencyStore)
    IN  IF Contains(storage_name, KwPHS)
        THEN SetLoc(e, storage_name, "max_hours", PhsMaxHours)
        ELSE IF Contains(storage_name, KwHydro)
             THEN SetLoc(e, storage_name, "max_hours", HydroMaxHours)
             ELSE e

\* the loop over network.storage_units.index
RECURSIVE NormalizeUnits(_, _)
NormalizeUnits(df, todo) ==
    IF todo = <<>> THEN df
    ELSE NormalizeUnits(NormalizeUnit(df, Head(todo)), Tail(todo))

\* network.storage_units after the loop
NormalizedStorage(df) == NormalizeUnits(df, df.index)

----------------------------------------------------------------------------
(* The objective loop of the script.                                       *)

\* (costs * power).sum(): the products are aligned on the component labels
RECURSIVE WeightedSum(_, _, _, _)
WeightedSum(index, costs, table, s) ==
    IF index = <<>> THEN 0
    ELSE costs[1] * table[index[1]][s]
         + WeightedSum(Tail(index), Tail(costs), table, s)

\* a variant that does not weight the generator cost
SnapshotCostUnweighted(gens, gens_t, units, units_t, weightings, s) ==
    (IF Len(gens.index) > 0
     THEN WeightedSum(gens.index, gens.marginal_cost, gens_t.p, s) ELSE 0)
    + (IF Len(units.index) > 0
       THEN weightings[s]
            * (WeightedSum(units.index, units.marginal_cost, units_t.p_dispatch, s)
               + WeightedSum(units.index, units.marginal_cost_storage, units_t.p_store, s)
               + (IF "spill" \in DOMAIN units_t
                  THEN WeightedSum(units.index, units.spill_cost, units_t.spill, s)
                  ELSE 0))
       ELSE 0)

\* a variant that charges spill_cost on the dispatch when there is no spill table
SnapshotCostSpillFallback(gens, gens_t, units, units_t, weightings, s) ==
    weightings[s]
    * ((IF Len(gens.index) > 0
        THEN WeightedSum(gens.index, gens.marginal_cost, gens_t.p, s) ELSE 0)
       + (IF Len(units.index) > 0
          THEN WeightedSum(units.index, units.marginal_cost, units_t.p_dispatch, s)
               + WeightedSum(units.index, units.marginal_cost_storage, units_t.p_store, s)
               + WeightedSum(units.index, units.spill_cost,
                             IF "spill" \in DOMAIN units_t THEN units_t.spill
                             ELSE units_t.p_dispatch, s)
          ELSE 0))

\* what one pass of the loop over network.snapshots adds to total_objective
SnapshotCost(gens, gens_t, units, units_t, weightings, s) ==
    LET snapshot_weighting == weightings[s]
        gen_cost ==
            IF Len(gens.index) > 0
            THEN WeightedSum(gens.index, gens.marginal_cost, gens_t.p, s)
                 * snapshot_weighting
            ELSE 0
        storage_cost ==
            IF Len(units.index) > 0
            THEN WeightedSum(units.index, units.marginal_cost, units_t.p_dispatch, s)
                 * snapshot_weighting
            ELSE 0
        storage_store_cost ==
            IF Len(units.index) > 0
            THEN WeightedSum(units.index, units.marginal_cost_storage, units_t.p_store, s)
                 * snapshot_weighting
            ELSE 0
        spill_cost ==
            IF Len(units.index) > 0 /\ "spill" \in DOMAIN units_t
            THEN WeightedSum(units.index, units.spill_cost, units_t.spill, s)
                 * snapshot_weighting
            ELSE 0
    IN  gen_cost + storage_cost + storage_store_cost + spill_cost

----------------------------------------------------------------------------
(* The networks the model is run on.                                       *)

LinePlain1 == <<"1">>
LinePlain2 == <<"L","2">>
LineNew == <<"N","e","w","_","3">>
LineArrow == <<"A","<","-",">","B">>
LineArtificial == <<"A","R","T","I","F","I","C","I","A","L"," ","5">>
LineNamePool == <<LinePlain1, LinePlain2, LineNew, LineArrow, LineArtificial>>

GenCoal == <<"Z","A","0"," ","0"," ","c","o","a","l">>
GenOnwind == <<"Z","A","0"," ","0"," ","o","n","w","i","n","d">>
GenOffwindAc == <<"Z","A","0"," ","0"," ","o","f","f","w","i","n","d","-","a","c">>
GenOffwindDc == <<"Z","A","0"," ","1"," ","O","f","f","W","i","n","d","-","d","c">>
GenOffwindUp == <<"O","F","F","W","I","N","D"," ","2">>
GenOffshore == <<"Z","A","0"," ","3"," ","o","f","f","-","w","i","n","d">>
GeneratorNamePool ==
    <<GenCoal, GenOffwindAc, GenOnwind, GenOffwindDc, GenOffshore, GenOffwindUp>>

SuPHS == <<"Z","A","0"," ","0"," ","P","H","S">>
SuHydro == <<"Z","A","0"," ","1"," ","h","y","d","r","o">>
SuBoth == <<"Z","A","0"," ","2"," ","P","H","S"," ","h","y","d","r","o">>
SuOther == <<"Z","A","0"," ","4"," ","p","h","s"," ","H","y","d","r","o">>
StorageNamePool == <<SuPHS, SuHydro, SuBoth, SuOther>>

\* the ways to pick k rows out of a pool of n, in the pool's order
Picks(k, n) == {f \in [1..k -> 1..n] : \A i \in 1..(k - 1) : f[i] < f[i + 1]}

\* buses A and B exist; bus C is named by some lines but is not in network.buses
BusNames == {"A", "B"}
\* the rows a lines table is made of: pos is the row's label in LineNamePool.
\* Plain lines come with and without capacity, the keyword lines with none,
\* and the line A<->B also as an earlier repair left it
LineRowPool ==
    {[pos |-> 1, ends |-> <<"A", "C">>, s_nom |-> c] : c \in {0, 400}}
    \cup {[pos |-> 2, ends |-> <<"A", "B">>, s_nom |-> c] : c \in {0, 400}}
    \cup {[pos |-> 3, ends |-> <<"A", "C">>, s_nom |-> 0]}
    \cup {[pos |-> 4, ends |-> <<"A", "B">>, s_nom |-> c] : c \in {0, 1000}}
    \cup {[pos |-> 5, ends |-> <<"C", "B">>, s_nom |-> 0]}

LineFrame(rows, flags) ==
    LET base == [index |-> [i \in DOMAIN rows |-> LineNamePool[rows[i].pos]],
                 bus0 |-> [i \in DOMAIN rows |-> rows[i].ends[1]],
                 bus1 |-> [i \in DOMAIN rows |-> rows[i].ends[2]],
                 s_nom |-> [i \in DOMAIN rows |-> rows[i].s_nom]]
    IN  IF flags = "absent" THEN base
        ELSE NewColumn(base, "s_nom_extendable", TRUE)

\* the lines tables: up to MaxLines rows with distinct labels, with or without
\* the column s_nom_extendable
LineFrames ==
    UNION {{LineFrame(rows, flags) :
                rows \in {r \in [1..k -> LineRowPool] :
                             \A i \in 1..(k - 1) : r[i].pos < r[i + 1].pos},
                flags \in {"absent", "present"}} : k \in 0..MaxLines}

\* load series over n snapshots: a peak of 500 in the first snapshot, a peak
\* of 200 in the last one after negative values, and an all-negative one
PeakFirst(n) == [s \in 1..n |-> IF s = 1 THEN 500 ELSE 200]
PeakLast(n) == [s \in 1..n |-> IF s = n THEN 200 ELSE 0 - 100]
Negative(n) == [s \in 1..n |-> IF s = 1 THEN 0 - 100 ELSE 0 - 400]

\* the rows a loads table is made of: the bus and the load's column in
\* loads_t.p_set, <<>> for a load that has no column
LoadRowPool(n) ==
    {[bus |-> "A", series |-> PeakLast(n)], [bus |-> "A", series |-> Negative(n)],
     [bus |-> "A", series |-> <<>>], [bus |-> "B", series |-> PeakFirst(n)],
     [bus |-> "B", series |-> PeakLast(n)], [bus |-> "B", series |-> Negative(n)]}

LoadName(i) == <<"load", i>>

\* the loads tables with their p_set tables: up to MaxLoads rows
LoadInputs(n) ==
    UNION {{[loads |-> [index |-> [i \in 1..k |-> LoadName(i)],
                        bus |-> [i \in 1..k |-> rows[i].bus]],
             p_set |-> [label \in {LoadName(i) : i \in {j \in 1..k : rows[j].series # <<>>}} |->
                           rows[label[2]].series]] :
                rows \in [1..k -> LoadRowPool(n)]} : k \in 0..MaxLoads}

\* generator attributes follow the carrier: coal costs 10.00 per MWh, wind
\* 0.02, and the offshore entries have no capacity
GenMarginalCost(label) == IF label = GenCoal THEN 1000 ELSE 2
GenNominalPower(label) ==
    IF label = GenCoal THEN 500
    ELSE IF label = GenOnwind \/ label = GenOffshore THEN 100 ELSE 0

GeneratorFrame(pick) ==
    [index |-> [i \in DOMAIN pick |-> GeneratorNamePool[pick[i]]],
     p_nom |-> [i \in DOMAIN pick |-> GenNominalPower(GeneratorNamePool[pick[i]])],
     marginal_cost |-> [i \in DOMAIN pick |-> GenMarginalCost(GeneratorNamePool[pick[i]])]]

GeneratorFrames(pool_size) ==
    UNION {{GeneratorFrame(pick) : pick \in Picks(k, pool_size)} : k \in 0..MaxGenerators}

\* input time series keyed by generator: any subset of the generators has a
\* p_max_pu column; p is empty until the optimisation fills it
GeneratorTables(df, n) ==
    {[p_max_pu |-> [label \in {df.index[i] : i \in with} |-> [s \in 1..n |-> 1]],
      p |-> <<>>] : with \in SUBSET Rows(df)}

StorageDefaults ==
    {[cyclic_state_of_charge |-> TRUE, marginal_cost |-> 0, marginal_cost_storage |-> 0,
      spill_cost |-> 0, efficiency_store |-> 1000000],
     [cyclic_state_of_charge |-> FALSE, marginal_cost |-> 5, marginal_cost_storage |-> 2,
      spill_cost |-> 10, efficiency_store |-> 750000]}
StorageHours == {1, 24}

StorageFrame(pick, default, hours) ==
    [index |-> [i \in DOMAIN pick |-> StorageNamePool[pick[i]]],
     cyclic_state_of_charge |-> [i \in DOMAIN pick |-> default.cyclic_state_of_charge],
     marginal_cost |-> [i \in DOMAIN pick |-> default.marginal_cost],
     marginal_cost_storage |-> [i \in DOMAIN pick |-> default.marginal_cost_storage],
     spill_cost |-> [i \in DOMAIN pick |-> default.spill_cost],
     efficiency_store |-> [i \in DOMAIN pick |-> default.efficiency_store],
     max_hours |-> hours]

StorageFrames ==
    UNION {{StorageFrame(pick, default, hours) :
                pick \in Picks(k, Len(StorageNamePool)),
                default \in StorageDefaults,
                hours \in [1..k -> StorageHours]} : k \in 0..MaxStorageUnits}

WeightingPool(n) == {[s \in 1..n |-> 1], [s \in 1..n |-> s]}

NoGenerators == GeneratorFrame(<<>>)
NoStorageUnits == StorageFrame(<<>>, CHOOSE d \in StorageDefaults : TRUE, <<>>)
NoResults == [p_dispatch |-> <<>>, p_store |-> <<>>]

\* the tables a repair step may change
Tables ==
    [lines |-> lines, generators |-> generators, generators_t |-> generators_t,
     storage_units |-> storage_units]

----------------------------------------------------------------------------
(* The repair functions, called on their own.                              *)

\* fix_artificial_lines_reasonable(network)
FixBody ==
    /\ at_entry' = Tables
    /\ bus_max_demand' = BusMaxDemand(buses, loads, loads_t_p_set)
    /\ lines' = FixedLines(lines, buses, loads, loads_t_p_set)

\* remove_offshore_wind(network)
RemoveBody ==
    LET after == WithoutOffshoreWind(generators, generators_t)
    IN  /\ at_entry' = Tables
        /\ generators' = after.df
        /\ generators_t' = after.pnl

InitFix ==
    /\ pc = "fix_artificial_lines_reasonable"
    /\ buses = BusNames
    /\ snapshot_weightings = [s \in 1..MaxSnapshots |-> 1]
    /\ \E input \in LoadInputs(MaxSnapshots) :
        /\ loads = input.loads
        /\ loads_t_p_set = input.p_set
    /\ lines \in LineFrames
    /\ generators = NoGenerators
    /\ generators_t = [p_max_pu |-> <<>>, p |-> <<>>]
    /\ storage_units = NoStorageUnits
    /\ storage_units_t = NoResults
    /\ bus_max_demand = <<>>
    /\ total_objective = 0
    /\ snapshot = 0
    /\ objective_file = <<>>
    /\ at_entry = Tables
    /\ calls = 0
    /\ stages = <<>>

FixCall ==
    /\ pc = "fix_artificial_lines_reasonable"
    /\ calls < MaxCalls
    /\ calls' = calls + 1
    /\ FixBody
    /\ UNCHANGED <<pc, buses, loads, loads_t_p_set, generators, generators_t,
                   storage_units, storage_units_t, snapshot_weightings,
                   total_objective, snapshot, objective_file, stages>>

NextFix == FixCall

SpecFix == InitFix /\ [][NextFix]_vars

InitRemove ==
    /\ pc = "remove_offshore_wind"
    /\ buses = BusNames
    /\ loads = [index |-> <<>>, bus |-> <<>>]
    /\ snapshot_weightings = [s \in 1..MaxSnapshots |-> 1]
    /\ loads_t_p_set = <<>>
    /\ lines = LineFrame(<<>>, "present")
    /\ generators \in GeneratorFrames(Len(GeneratorNamePool))
    /\ generators_t \in GeneratorTables(generators, MaxSnapshots)
    /\ storage_units = NoStorageUnits
    /\ storage_units_t = NoResults
    /\ bus_max_demand = <<>>
    /\ total_objective = 0
    /\ snapshot = 0
    /\ objective_file = <<>>
    /\ at_entry = Tables
    /\ calls = 0
    /\ stages = <<>>

RemoveCall ==
    /\ pc = "remove_offshore_wind"
    /\ calls < MaxCalls
    /\ calls' = calls + 1
    /\ RemoveBody
    /\ UNCHANGED <<pc, buses, loads, loads_t_p_set, lines, storage_units,
                   storage_units_t, snapshot_weightings, bus_max_demand,
                   total_objective, snapshot, objective_file, stages>>

NextRemove == RemoveCall

SpecRemove == InitRemove /\ [][NextRemove]_vars

----------------------------------------------------------------------------
(* The script: create_pypsa_network, the optimisation, the objective loop  *)
(* and the write of the result.  An exception in a library call ends the   *)
(* run (pc = "failed"): the script catches nothing.                        *)

PipelineOrder ==
    <<"Loader", "Normalizer", "Capacity Fixer", "Pruner", "Topology Precomputation",
      "Optimization Invocation", "Objective Reconstructor", "persist">>

\* what the solver may return for one generator, and for the storage units
DispatchPool(n) == {[s \in 1..n |-> 5 + 2 * (s - 1)], [s \in 1..n |-> 3]}
StorageSolutions(n) ==
    {[p_dispatch |-> [i \in 1..MaxStorageUnits |-> [s \in 1..n |-> i * s]],
      p_store |-> [i \in 1..MaxStorageUnits |-> [s \in 1..n |-> 0]],
      spill |-> [i \in 1..MaxStorageUnits |-> [s \in 1..n |-> 2 * i]]],
     [p_dispatch |-> [i \in 1..MaxStorageUnits |-> [s \in 1..n |-> 0]],
      p_store |-> [i \in 1..MaxStorageUnits |-> [s \in 1..n |-> 4 + s]],
      spill |-> [i \in 1..MaxStorageUnits |-> [s \in 1..n |-> 0]]]}

\* a table with one column per row of df, the column of row i being by_row[i]
TableOf(df, by_row) ==
    [label \in {df.index[i] : i \in Rows(df)} |->
        by_row[CHOOSE i \in Rows(df) : df.index[i] = label]]

\* the script starts; the network variables hold what the network file holds
Init ==
    /\ pc = "load"
    /\ buses = BusNames
    /\ loads = [index |-> <<LoadName(1)>>, bus |-> <<"B">>]
    /\ \E n \in 1..MaxSnapshots :
        /\ snapshot_weightings \in WeightingPool(n)
        /\ loads_t_p_set = [label \in {LoadName(1)} |-> PeakFirst(n)]
    /\ lines = LineFrame(<<[pos |-> 1, ends |-> <<"A", "C">>, s_nom |-> 0],
                           [pos |-> 4, ends |-> <<"A", "B">>, s_nom |-> 0]>>, "present")
    /\ generators \in GeneratorFrames(3)
    /\ generators_t =
         [p_max_pu |-> [label \in {generators.index[i] : i \in Rows(generators)}
                                      \ {GenCoal} |->
                           [s \in DOMAIN snapshot_weightings |-> 1]],
          p |-> <<>>]
    /\ storage_units \in StorageFrames
    /\ storage_units_t = NoResults
    /\ bus_max_demand = <<>>
    /\ total_objective = 0
    /\ snapshot = 0
    /\ objective_file = <<>>
    /\ at_entry = Tables
    /\ calls = 0
    /\ stages = <<>>

\* network = pypsa.Network(network_file)
LoadOk ==
    /\ pc = "load"
    /\ pc' = "normalize"
    /\ stages' = Append(stages, "Loader")
    /\ UNCHANGED <<buses, loads, loads_t_p_set, lines, generators, generators_t,
                   storage_units, storage_units_t, snapshot_weightings, bus_max_demand,
                   total_objective, snapshot, objective_file, at_entry, calls>>

LoadFail ==
    /\ pc = "load"
    /\ pc' = "failed"
    /\ UNCHANGED <<buses, loads, loads_t_p_set, lines, generators, generators_t,
                   storage_units, storage_units_t, snapshot_weightings, bus_max_demand,
                   total_objective, snapshot, objective_file, at_entry, calls, stages>>

\* the loop over network.storage_units.index
Normalize ==
    /\ pc = "normalize"
    /\ pc' = "fix"
    /\ at_entry' = Tables
    /\ storage_units' = NormalizedStorage(storage_units)
    /\ stages' = Append(stages, "Normalizer")
    /\ UNCHANGED <<buses, loads, loads_t_p_set, lines, generators, generators_t,
                   storage_units_t, snapshot_weightings, bus_max_demand,
                   total_objective, snapshot, objective_file, calls>>

\* fix_artificial_lines_reasonable(network)
Fix ==
    /\ pc = "fix"
    /\ pc' = "prune"
    /\ FixBody
    /\ stages' = Append(stages, "Capacity Fixer")
    /\ UNCHANGED <<buses, loads, loads_t_p_set, generators, generators_t,
                   storage_units, storage_units_t, snapshot_weightings,
                   total_objective, snapshot, objective_file, calls>>

\* remove_offshore_wind(network)
Prune ==
    /\ pc = "prune"
    /\ pc' = "topology"
    /\ RemoveBody
    /\ stages' = Append(stages, "Pruner")
    /\ UNCHANGED <<buses, loads, loads_t_p_set, lines, storage_units,
                   storage_units_t, snapshot_weightings, bus_max_demand,
                   total_objective, snapshot, objective_file, calls>>

\* _initialize_power_flow_matrices(network)
TopologyOk ==
    /\ pc = "topology"
    /\ pc' = "optimize"
    /\ stages' = Append(stages, "Topology Precomputation")
    /\ UNCHANGED <<buses, loads, loads_t_p_set, lines, generators, generators_t,
                   storage_units, storage_units_t, snapshot_weightings, bus_max_demand,
                   total_objective, snapshot, objective_file, at_entry, calls>>

TopologyFail ==
    /\ pc = "topology"
    /\ pc' = "failed"
    /\ UNCHANGED <<buses, loads, loads_t_p_set, lines, generators, generators_t,
                   storage_units, storage_units_t, snapshot_weightings, bus_max_demand,
                   total_objective, snapshot, objective_file, at_entry, calls, stages>>

\* network.optimize(solver_name='gurobi') returns: the result tables are
\* filled, with or without spill; then total_objective = 0.0
OptimizeOk ==
    /\ pc = "optimize"
    /\ pc' = "reconstruct"
    /\ \E dispatch \in [Rows(generators) -> DispatchPool(Len(snapshot_weightings))] :
         generators_t' = [generators_t EXCEPT !.p = TableOf(generators, dispatch)]
    /\ \E sol \in StorageSolutions(Len(snapshot_weightings)), with_spill \in BOOLEAN :
         storage_units_t' =
            LET filled == [p_dispatch |-> TableOf(storage_units, sol.p_dispatch),
                           p_store |-> TableOf(storage_units, sol.p_store)]
            IN  IF with_spill
                THEN [t \in {"p_dispatch", "p_store", "spill"} |->
                        IF t = "spill" THEN TableOf(storage_units, sol.spill)
                        ELSE filled[t]]
                ELSE filled
    /\ total_objective' = 0
    /\ snapshot' = 0
    /\ stages' = Append(stages, "Optimization Invocation")
    /\ UNCHANGED <<buses, loads, loads_t_p_set, lines, generators, storage_units,
                   snapshot_weightings, bus_max_demand, objective_file, at_entry, calls>>

\* a variant in which the exception is swallowed and the script goes on to write
OptimizeFailSwallowed ==
    /\ pc = "optimize"
    /\ pc' = "persist"
    /\ UNCHANGED <<buses, loads, loads_t_p_set, lines, generators, generators_t,
                   storage_units, storage_units_t, snapshot_weightings, bus_max_demand,
                   total_objective, snapshot, objective_file, at_entry, calls, stages>>

\* network.optimize raises (infeasible, no licence, solver crash)
OptimizeFail ==
    /\ pc = "optimize"
    /\ pc' = "failed"
    /\ UNCHANGED <<buses, loads, loads_t_p_set, lines, generators, generators_t,
                   storage_units, storage_units_t, snapshot_weightings, bus_max_demand,
                   total_objective, snapshot, objective_file, at_entry, calls, stages>>

\* one pass of the loop over network.snapshots
ObjectiveStep ==
    /\ pc = "reconstruct"
    /\ snapshot < Len(snapshot_weightings)
    /\ snapshot' = snapshot + 1
    /\ total_objective' = total_objective
            + SnapshotCost(generators, generators_t, storage_units, storage_units_t,
                           snapshot_weightings, snapshot + 1)
    /\ IF snapshot + 1 = Len(snapshot_weightings)
       THEN pc' = "persist" /\ stages' = Append(stages, "Objective Reconstructor")
       ELSE UNCHANGED <<pc, stages>>
    /\ UNCHANGED <<buses, loads, loads_t_p_set, lines, generators, generators_t,
                   storage_units, storage_units_t, snapshot_weightings, bus_max_demand,
                   objective_file, at_entry, calls>>

\* os.makedirs(...); open(..., 'w'); f.write(str(total_objective))
PersistOk ==
    /\ pc = "persist"
    /\ pc' = "done"
    /\ objective_file' = <<total_objective>>
    /\ stages' = Append(stages, "persist")
    /\ UNCHANGED <<buses, loads, loads_t_p_set, lines, generators, generators_t,
                   storage_units, storage_units_t, snapshot_weightings, bus_max_demand,
                   total_objective, snapshot, at_entry, calls>>

\* the directory cannot be made or the file cannot be opened
PersistFail ==
    /\ pc = "persist"
    /\ pc' = "failed"
    /\ UNCHANGED <<buses, loads, loads_t_p_set, lines, generators, generators_t,
                   storage_units, storage_units_t, snapshot_weightings, bus_max_demand,
                   total_objective, snapshot, objective_file, at_entry, calls, stages>>

Next ==
    \/ LoadOk
    \/ LoadFail
    \/ Normalize
    \/ Fix
    \/ Prune
    \/ TopologyOk
    \/ TopologyFail
    \/ OptimizeOk
    \/ OptimizeFail
    \/ ObjectiveStep
    \/ PersistOk
    \/ PersistFail

Spec == Init /\ [][Next]_vars

----------------------------------------------------------------------------
(* What the properties below speak of.                                     *)

MaxOf(S) == CHOOSE x \in S : \A y \in S : y <= x

RECURSIVE SumOver(_, _)
SumOver(S, f) ==
    IF S = {} THEN 0
    ELSE LET x == CHOOSE y \in S : TRUE IN f[x] + SumOver(S \ {x}, f)

\* the rows of a lines table that are synthetic: those named by a keyword,
\* and only when there is none, those of capacity zero
KeywordRows(df) ==
    {i \in Rows(df) : \E keyword \in Keywords : Contains(Lower(df.index[i]), keyword)}
ZeroRows(df) == {i \in Rows(df) : df.s_nom[i] = 0}
SyntheticRows(df) == IF KeywordRows(df) # {} THEN KeywordRows(df) ELSE ZeroRows(df)

\* the values of the load time series of the loads attached to a bus
DemandValues(bus) ==
    {loads_t_p_set[loads.index[k]][s] :
        k \in {j \in Rows(loads) : loads.bus[j] = bus /\ loads.index[j] \in DOMAIN loads_t_p_set},
        s \in DOMAIN snapshot_weightings}

\* the peak demand of a bus as the specification words it
PeakDemand(bus) ==
    IF bus \in buses /\ DemandValues(bus) # {} THEN MaxOf(DemandValues(bus)) ELSE 0

\* the capacity the specification requires of row i of the lines table
SpecCapacity(df, i) ==
    MaxOf({3 * MaxOf({PeakDemand(df.bus0[i]), PeakDemand(df.bus1[i])}), 1000})

Called == calls >= 1

----------------------------------------------------------------------------
(* fix_artificial_lines_reasonable: properties, under SpecFix.             *)

\* C1: after a call, every line of the synthetic set the call selected has
\* s_nom = max(3 * max(peak demand of bus0, peak demand of bus1), 1000), hence
\* at least 1000 and at least 3 times either endpoint's peak demand; 1000 when
\* both endpoints have no demand, 1500 when the peaks are 200 and 500.
C1_SyntheticCapacity ==
    Called =>
        \A i \in SyntheticRows(at_entry.lines) :
            LET p0 == PeakDemand(lines.bus0[i])
                p1 == PeakDemand(lines.bus1[i])
            IN  /\ lines.s_nom[i] = SpecCapacity(at_entry.lines, i)
                /\ lines.s_nom[i] >= 1000
                /\ lines.s_nom[i] >= 3 * p0
                /\ lines.s_nom[i] >= 3 * p1
                /\ (p0 = 0 /\ p1 = 0 => lines.s_nom[i] = 1000)
                /\ ({p0, p1} = {200, 500} => lines.s_nom[i] = 1500)

C1_Witness ==
    /\ Called
    /\ \E i \in SyntheticRows(at_entry.lines) :
        /\ {PeakDemand(lines.bus0[i]), PeakDemand(lines.bus1[i])} = {200, 500}
        /\ at_entry.lines.s_nom[i] = 0
        /\ lines.s_nom[i] = 1500

\* C2: a second call in succession leaves the lines table, s_nom and
\* s_nom_extendable included, as the first call left it.
C2_Idempotent == calls >= 2 => lines = at_entry.lines

\* the first call selected by s_nom == 0 and the second call found the table
\* with those lines no longer at zero
C2_Witness ==
    /\ calls = 2
    /\ KeywordRows(lines) = {}
    /\ \E i \in Rows(lines) : lines.s_nom[i] >= 1000

\* C7 as stated: the lines whose s_nom differs after the call are exactly the
\* synthetic set.
C7_ChangedIsSynthetic ==
    Called =>
        {i \in Rows(lines) : lines.s_nom[i] # at_entry.lines.s_nom[i]}
            = SyntheticRows(at_entry.lines)

\* C7, amended: the lines the call assigns s_nom to are exactly the synthetic
\* set (keyword names first, zero capacity only when no name matches, nothing
\* when neither): each of them ends with its required capacity, which may be
\* the value it had, and every other line keeps its s_nom; a zero-capacity
\* line with a plain name stays at zero when another line matches a keyword.
C7_AssignedIsSynthetic ==
    Called =>
        /\ lines.index = at_entry.lines.index
        /\ \A i \in Rows(lines) :
            IF i \in SyntheticRows(at_entry.lines)
            THEN lines.s_nom[i] = SpecCapacity(at_entry.lines, i)
            ELSE lines.s_nom[i] = at_entry.lines.s_nom[i]
        /\ {i \in Rows(lines) : lines.s_nom[i] # at_entry.lines.s_nom[i]}
              \subseteq SyntheticRows(at_entry.lines)
        /\ (KeywordRows(at_entry.lines) # {} =>
              \A i \in ZeroRows(at_entry.lines) \ KeywordRows(at_entry.lines) :
                  lines.s_nom[i] = 0)
        /\ (SyntheticRows(at_entry.lines) = {} => lines = at_entry.lines)

\* a keyword line was repaired while a plain zero-capacity line stayed at zero
C7_Witness ==
    /\ Called
    /\ \E i \in KeywordRows(at_entry.lines) : lines.s_nom[i] # at_entry.lines.s_nom[i]
    /\ \E i \in ZeroRows(at_entry.lines) \ KeywordRows(at_entry.lines) : lines.s_nom[i] = 0

\* C8 as stated: the peak demand of a bus is the maximum of the load time
\* series of the loads attached to it, 0 when there is none.
C8_PeakIsSeriesMaximum ==
    Called =>
        /\ DOMAIN bus_max_demand = buses
        /\ \A bus \in buses : bus_max_demand[bus] = PeakDemand(bus)

\* C8, amended: the peak demand of a bus is the larger of 0 and that maximum,
\* so it is 0 for a bus without loads and for a bus whose loads are negative
\* throughout; an endpoint that is no bus of the network counts as 0, and the
\* line still gets max(3 * the other endpoint's peak, 1000).
C8_PeakIsFlooredMaximum ==
    Called =>
        /\ DOMAIN bus_max_demand = buses
        /\ \A bus \in buses : bus_max_demand[bus] = MaxOf(DemandValues(bus) \cup {0})
        /\ \A i \in SyntheticRows(at_entry.lines) :
            LET d0 == IF lines.bus0[i] \in buses THEN bus_max_demand[lines.bus0[i]] ELSE 0
                d1 == IF lines.bus1[i] \in buses THEN bus_max_demand[lines.bus1[i]] ELSE 0
            IN  /\ lines.s_nom[i] = MaxOf({3 * d0, 3 * d1, 1000})
                /\ lines.s_nom[i] >= 1000

\* a bus with only negative load has peak 0, and a synthetic line to a bus the
\* network does not have was sized from its other endpoint
C8_Witness ==
    /\ Called
    /\ \E bus \in buses :
        /\ DemandValues(bus) # {}
        /\ MaxOf(DemandValues(bus)) < 0
        /\ bus_max_demand[bus] = 0
    /\ \E i \in SyntheticRows(at_entry.lines) :
        /\ lines.bus0[i] \notin DOMAIN bus_max_demand
        /\ bus_max_demand[lines.bus1[i]] = 500
        /\ lines.s_nom[i] = 1500

HasFlags(df) == "s_nom_extendable" \in DOMAIN df

\* C9 as stated: after the call every synthetic line has s_nom_extendable =
\* false; a table that had no such column has it afterwards, false for every
\* line; a table that had it keeps the flags of the other lines.
C9_FlagColumnAlways ==
    Called =>
        /\ \A i \in SyntheticRows(at_entry.lines) :
            HasFlags(lines) /\ lines.s_nom_extendable[i] = FALSE
        /\ (~HasFlags(at_entry.lines) =>
              HasFlags(lines) /\ \A i \in Rows(lines) : lines.s_nom_extendable[i] = FALSE)
        /\ (HasFlags(at_entry.lines) =>
              \A i \in Rows(lines) \ SyntheticRows(at_entry.lines) :
                  lines.s_nom_extendable[i] = at_entry.lines.s_nom_extendable[i])

\* C9, amended: the column is created only when the call selects at least one
\* synthetic line; with none selected the table is left as it was, without the
\* column if it had none.
C9_FlagColumnWhenSelected ==
    Called =>
        /\ \A i \in SyntheticRows(at_entry.lines) :
            HasFlags(lines) /\ lines.s_nom_extendable[i] = FALSE
        /\ (~HasFlags(at_entry.lines) /\ SyntheticRows(at_entry.lines) # {} =>
              HasFlags(lines) /\ \A i \in Rows(lines) : lines.s_nom_extendable[i] = FALSE)
        /\ (~HasFlags(at_entry.lines) /\ SyntheticRows(at_entry.lines) = {} =>
              ~HasFlags(lines))
        /\ (HasFlags(at_entry.lines) =>
              /\ HasFlags(lines)
              /\ \A i \in Rows(lines) \ SyntheticRows(at_entry.lines) :
                  lines.s_nom_extendable[i] = at_entry.lines.s_nom_extendable[i])

\* a table without the column got it, with a plain line's flag false too
C9_Witness ==
    /\ Called
    /\ ~HasFlags(at_entry.lines)
    /\ HasFlags(lines)
    /\ SyntheticRows(at_entry.lines) # {}
    /\ \E i \in Rows(lines) \ SyntheticRows(at_entry.lines) :
        lines.s_nom_extendable[i] = FALSE

----------------------------------------------------------------------------
(* remove_offshore_wind: property, under SpecRemove.                       *)

\* the identifier contains 'offwind' case-insensitively
Marked(label) == Contains(Lower(label), KwOffwind)

UnmarkedRows(df) == {i \in Rows(df) : ~Marked(df.index[i])}

\* C3: after the call no generator whose identifier contains 'offwind' in any
\* case is left in the generator table or in a time-series table keyed by
\* generator; every other generator is still there with its attributes and
\* its series; with no such generator the call changes nothing.
C3_OffshoreRemoved ==
    Called =>
        /\ \A i \in Rows(generators) : ~Marked(generators.index[i])
        /\ \A t \in DOMAIN generators_t :
              \A label \in DOMAIN generators_t[t] : ~Marked(label)
        /\ DOMAIN generators = DOMAIN at_entry.generators
        /\ Len(generators.index) = Cardinality(UnmarkedRows(at_entry.generators))
        /\ \A i \in UnmarkedRows(at_entry.generators) :
              \E j \in Rows(generators) :
                  \A c \in DOMAIN generators : generators[c][j] = at_entry.generators[c][i]
        /\ DOMAIN generators_t = DOMAIN at_entry.generators_t
        /\ \A t \in DOMAIN generators_t :
              \A label \in DOMAIN at_entry.generators_t[t] :
                  ~Marked(label) =>
                      /\ label \in DOMAIN generators_t[t]
                      /\ generators_t[t][label] = at_entry.generators_t[t][label]
        /\ (UnmarkedRows(at_entry.generators) = Rows(at_entry.generators) =>
              /\ generators = at_entry.generators
              /\ generators_t = at_entry.generators_t)

\* a generator spelled 'OffWind' with a p_max_pu column was removed from both,
\* and one spelled 'off-wind' was kept
C3_Witness ==
    /\ calls = 1
    /\ \E i \in Rows(at_entry.generators) : at_entry.generators.index[i] = GenOffwindDc
    /\ GenOffwindDc \in DOMAIN at_entry.generators_t.p_max_pu
    /\ GenOffwindDc \notin DOMAIN generators_t.p_max_pu
    /\ generators.index = <<GenOffshore>>
    /\ GenOffshore \in DOMAIN generators_t.p_max_pu

----------------------------------------------------------------------------
(* The script: properties, under Spec.                                     *)

Completed(stage) == \E k \in DOMAIN stages : stages[k] = stage

\* C4: after the storage loop every storage unit has cyclic_state_of_charge
\* false, marginal_cost 0.01, marginal_cost_storage 0.01, spill_cost 0.1 and
\* efficiency_store 0.866025; max_hours is 8 when the identifier contains
\* 'PHS', else 6 when it contains 'hydro', else what it was.
C4_StorageNormalized ==
    Completed("Normalizer") =>
        /\ storage_units.index = at_entry.storage_units.index
        /\ \A i \in Rows(storage_units) :
            /\ storage_units.cyclic_state_of_charge[i] = FALSE
            /\ storage_units.marginal_cost[i] = 1
            /\ storage_units.marginal_cost_storage[i] = 1
            /\ storage_units.spill_cost[i] = 10
            /\ storage_units.efficiency_store[i] = 866025
            /\ storage_units.max_hours[i] =
                 IF Contains(storage_units.index[i], KwPHS) THEN 8
                 ELSE IF Contains(storage_units.index[i], KwHydro) THEN 6
                 ELSE at_entry.storage_units.max_hours[i]

\* right after the loop: a unit named both 'PHS' and 'hydro' went from 24 to 8
\* hours, and a unit named neither (in that spelling) kept its hours
C4_Witness ==
    /\ pc = "fix"
    /\ \E i, j \in Rows(storage_units) :
        /\ storage_units.index[i] = SuBoth
        /\ at_entry.storage_units.max_hours[i] = 24
        /\ at_entry.storage_units.cyclic_state_of_charge[i] = TRUE
        /\ storage_units.max_hours[i] = 8
        /\ storage_units.index[j] = SuOther
        /\ storage_units.max_hours[j] = 24

GeneratorTerm(s) ==
    SumOver(Rows(generators),
            [i \in Rows(generators) |->
                generators.marginal_cost[i] * generators_t.p[generators.index[i]][s]])
DispatchTerm(s) ==
    SumOver(Rows(storage_units),
            [i \in Rows(storage_units) |->
                storage_units.marginal_cost[i]
                    * storage_units_t.p_dispatch[storage_units.index[i]][s]])
StoreTerm(s) ==
    SumOver(Rows(storage_units),
            [i \in Rows(storage_units) |->
                storage_units.marginal_cost_storage[i]
                    * storage_units_t.p_store[storage_units.index[i]][s]])
SpillTerm(s) ==
    SumOver(Rows(storage_units),
            [i \in Rows(storage_units) |->
                storage_units.spill_cost[i]
                    * storage_units_t.spill[storage_units.index[i]][s]])
HasSpill == "spill" \in DOMAIN storage_units_t

\* the total over the first n snapshots, as the specification gives it
SpecTotal(n) ==
    SumOver(1..n,
            [s \in 1..n |->
                snapshot_weightings[s]
                    * (GeneratorTerm(s) + DispatchTerm(s) + StoreTerm(s)
                       + (IF HasSpill THEN SpillTerm(s) ELSE 0))])

\* the same without any spill term
TotalWithoutSpill(n) ==
    SumOver(1..n,
            [s \in 1..n |->
                snapshot_weightings[s] * GeneratorTerm(s)
                + snapshot_weightings[s] * DispatchTerm(s)
                + snapshot_weightings[s] * StoreTerm(s)])

\* C5: total_objective is the sum over the snapshots of weight * (generator
\* cost + storage dispatch cost + storage store cost + spill cost), each over
\* the components in the network; 0 with no generator and no storage unit;
\* 190 for weights [1, 2], one generator of marginal cost 10 dispatching
\* [5, 7] and no storage.
C5_ObjectiveIsWeightedSum ==
    /\ pc = "reconstruct" => total_objective = SpecTotal(snapshot)
    /\ Completed("Objective Reconstructor") =>
        /\ total_objective = SpecTotal(Len(snapshot_weightings))
        /\ (generators.index = <<>> /\ storage_units.index = <<>> => total_objective = 0)
        /\ (/\ snapshot_weightings = <<1, 2>>
            /\ generators.marginal_cost = <<1000>>
            /\ generators_t.p[generators.index[1]] = <<5, 7>>
            /\ storage_units.index = <<>>
            => total_objective = 19000)

\* the example of the specification, to the end of the run
C5_Witness ==
    /\ pc = "done"
    /\ snapshot_weightings = <<1, 2>>
    /\ generators.marginal_cost = <<1000>>
    /\ generators_t.p[generators.index[1]] = <<5, 7>>
    /\ storage_units.index = <<>>
    /\ total_objective = 19000
    /\ objective_file = <<19000>>

\* C6: when the result has no spill table the loop runs without error and
\* the total has no spill term, whatever the units' spill_cost; a spill term
\* is in the total only when there is a spill table.
C6_NoSpillData ==
    /\ (pc = "reconstruct" /\ ~HasSpill =>
            /\ total_objective = TotalWithoutSpill(snapshot)
            /\ ENABLED ObjectiveStep)
    /\ (Completed("Objective Reconstructor") /\ ~HasSpill =>
            total_objective = TotalWithoutSpill(Len(snapshot_weightings)))
    /\ (Completed("Objective Reconstructor")
            /\ total_objective # TotalWithoutSpill(Len(snapshot_weightings))
            => HasSpill)

\* storage units with a positive spill_cost, no spill table, a total that the
\* other storage terms made positive
C6_Witness ==
    /\ pc = "done"
    /\ ~HasSpill
    /\ Len(storage_units.index) = 2
    /\ \A i \in Rows(storage_units) : storage_units.spill_cost[i] = 10
    /\ generators.index = <<>>
    /\ total_objective > 0

IsPrefix(a, b) == Len(a) <= Len(b) /\ \A k \in DOMAIN a : a[k] = b[k]

\* C10: the stages complete in the order Loader, Normalizer, Capacity Fixer,
\* Pruner, Topology Precomputation, Optimization Invocation, Objective
\* Reconstructor, persist; the file is written only after the optimisation
\* has returned and the loop has covered every snapshot; a run that has
\* failed has written no file.
C10_StageOrder ==
    /\ IsPrefix(stages, PipelineOrder)
    /\ (objective_file # <<>> =>
            /\ stages = PipelineOrder
            /\ pc = "done"
            /\ snapshot = Len(snapshot_weightings)
            /\ objective_file = <<total_objective>>)
    /\ (pc = "failed" => objective_file = <<>> /\ ~ENABLED Next)
    /\ (Completed("Optimization Invocation") =>
            DOMAIN generators_t.p = {generators.index[i] : i \in Rows(generators)})

\* a run that went through every stage and wrote the file
C10_Witness ==
    /\ pc = "done"
    /\ stages = PipelineOrder
    /\ objective_file = <<total_objective>>
    /\ generators.index # <<>>
    /\ storage_units.index # <<>>

====
